---- MODULE Spec2Model ----
(***************************************************************************)
(* Model of get_sentinel_data.py: catalogue pagination and baseline        *)
(* de-duplication (fetch_products), the OAuth token life cycle             *)
(* (get_access_token, regenerate_access_token, handle_token_expiry) and    *)
(* the download loop (download_product and the module-level script).       *)
(*                                                                         *)
(* The script is single threaded.  One action is one stretch of code       *)
(* between two interactions with the outside world (catalogue GET, token   *)
(* POST, download GET, disk), together with the outcome of the interaction *)
(* that ends it.  An uncaught exception ends the run (pc = "aborted").     *)
(***************************************************************************)
EXTENDS Integers, Sequences, FiniteSets

VARIABLES
    pc,                 \* position of the script
    url,                \* fetch_products: url of the next catalogue request
    products_by_date,   \* fetch_products: dict date -> [(baseline, product)], in insertion order
    received,           \* entries of data['value'] of every page read by the fetch_products call
    catReqs,            \* catalogue requests of the fetch_products call, with their outcomes
    products,           \* module level: the list fetch_products returned
    ACCESS_TOKEN,       \* module global
    REFRESH_TOKEN,      \* module global
    idx,                \* module level: position of the for loop in products (1-based)
    attempt,            \* download_product: attempt counter
    headers,            \* download_product: bearer token put in the Authorization header
    files,              \* download_dir: the files this run has created
    partial,            \* download_dir: created files whose body was not written to the end
    error,              \* the uncaught exception that ended the run
    log                 \* interactions of the script since the end of fetch_products

vars == <<pc, url, products_by_date, received, catReqs, products, ACCESS_TOKEN,
          REFRESH_TOKEN, idx, attempt, headers, files, partial, error, log>>

----------------------------------------------------------------------------
(* Bounds of the model *)

\* acquisition dates are 1..MaxDay
MaxDay == 2

\* entries the catalogue delivers in one run, over all pages
MaxEntries == 2

\* catalogue pages the server serves before it omits the next-page link
MaxPages == 2

(* Program constants *)

\* `while attempt < 3` / `if attempt >= 3`
MaxAttempts == 3

\* number of digits of the baseline pattern _N(\d{4})_
BaselineDigits == 4

----------------------------------------------------------------------------
(* Values *)

\* Python's None for a token
None == [kind |-> "none", resp |-> 0]

\* the access / refresh token carried by the k-th response of the token endpoint
AccessOf(k) == [kind |-> "access", resp |-> k]
RefreshOf(k) == [kind |-> "refresh", resp |-> k]

NoError == [kind |-> "none", product |-> 0]

BaseUrl == "base"
NoUrl == "none"
\* next-page links the server may return
Links == {BaseUrl, "next"}

Days == 1..MaxDay

\* the Nxxyy field of a product name, as its digits; <<5, 0, 0>> is a malformed field
Tags == {<<0, 4, 0, 0>>, <<0, 5, 0, 0>>, <<5, 0, 0>>}

NoMatch == -1

\* numeric value of a digit string, as int() computes it
RECURSIVE DigitsToInt(_)
DigitsToInt(ds) ==
    IF ds = <<>> THEN 0
    ELSE 10 * DigitsToInt(SubSeq(ds, 1, Len(ds) - 1)) + ds[Len(ds)]

\* re.search(r'_N(\d{4})_', name) followed by int(match.group(1)); NoMatch when the
\* search finds nothing
ParseBaseline(name) ==
    IF Len(name.tag) = BaselineDigits THEN DigitsToInt(name.tag) ELSE NoMatch

\* product['ContentDate']['Start'][:10]
DateOf(product) == product.Start.date

\* product_name.split('.')[0] + ".zip"
FileName(name) == [sensing |-> name.sensing, tag |-> name.tag, ext |-> "zip"]

\* a catalogue entry: the server numbers its entries (Id), the name encodes the
\* sensing date and the baseline, ContentDate.Start is the sensing time
Entry(id, day, tag) ==
    [Id |-> id,
     Name |-> [sensing |-> day, tag |-> tag, ext |-> "SAFE"],
     Start |-> [date |-> day, time |-> 0]]

\* the shapes (date, baseline field) of the entries of one page
PagesUpTo(n) == UNION {[1..k -> Days \X Tags] : k \in 0..n}

\* the entries of a page whose shapes are shp, numbered after the `from' entries
\* already delivered
PageEntries(shp, from) ==
    [i \in 1..Len(shp) |-> Entry(from + i, shp[i][1], shp[i][2])]

----------------------------------------------------------------------------
(* fetch_products *)

\* position of date d among the keys of the dict, 0 when absent
KeyIndex(dict, d) ==
    IF \E i \in 1..Len(dict) : dict[i].date = d
    THEN CHOOSE i \in 1..Len(dict) : dict[i].date = d
    ELSE 0

\* products_by_date[date].append((baseline_number, product)) on a defaultdict(list):
\* a new key goes to the end of the dict, an existing key keeps its place
DictAppend(dict, d, item) ==
    LET k == KeyIndex(dict, d) IN
    IF k = 0 THEN Append(dict, [date |-> d, items |-> <<item>>])
    ELSE [dict EXCEPT ![k].items = Append(@, item)]

\* AddProduct without the test `if match`: a name that does not match counts as
\* baseline 0
AddProduct_BaselineZero(dict, product) ==
    LET baseline_number == ParseBaseline(product.Name) IN
    DictAppend(dict, DateOf(product),
               <<IF baseline_number # NoMatch THEN baseline_number ELSE 0, product>>)

\* the body of `for product in data['value']` for one product
AddProduct(dict, product) ==
    LET baseline_number == ParseBaseline(product.Name) IN
    IF baseline_number # NoMatch
    THEN DictAppend(dict, DateOf(product), <<baseline_number, product>>)
    ELSE dict

\* `for product in data['value']` over a whole page
RECURSIVE AddPage(_, _)
AddPage(dict, page) ==
    IF page = <<>> THEN dict
    ELSE AddPage(AddProduct(dict, Head(page)), Tail(page))

\* MaxByBaseline with the key forgotten: the most recently appended item is taken
MaxByBaseline_Latest(items) == items[Len(items)]

\* MaxByBaseline comparing with >= while it scans: the last of the items with the
\* greatest key is taken
MaxByBaseline_LastMax(items) ==
    LET i == CHOOSE i \in 1..Len(items) :
                 /\ \A j \in 1..Len(items) : items[j][1] <= items[i][1]
                 /\ \A j \in (i + 1)..Len(items) : items[j][1] < items[i][1]
    IN items[i]

\* max(products, key=lambda x: x[0]): the first item whose key no item exceeds
MaxByBaseline(items) ==
    LET i == CHOOSE i \in 1..Len(items) :
                 /\ \A j \in 1..Len(items) : items[j][1] <= items[i][1]
                 /\ \A j \in 1..(i - 1) : items[j][1] < items[i][1]
    IN items[i]

\* `for date, products in products_by_date.items(): product_list.append(max(...)[1])`
ProductList(dict) ==
    [k \in 1..Len(dict) |-> MaxByBaseline(dict[k].items)[2]]

\* the request of one loop iteration: params only when url == base_url
CatalogRequest(u) == [url |-> u, params |-> (u = BaseUrl)]

\* a catalogue request and its outcome: whether the page was read, and the
\* next-page link it carried
CatalogExchange(u, ok, next) == [req |-> CatalogRequest(u), ok |-> ok, next |-> next]

\* PageFails with `continue` in place of `break`: the same page is requested again
PageFails_Retry ==
    /\ catReqs' = Append(catReqs, CatalogExchange(url, FALSE, NoUrl))
    /\ UNCHANGED <<received, url, products, products_by_date, pc>>

\* PageFails returning an empty list instead of what the pages read so far give
PageFails_Empty ==
    /\ catReqs' = Append(catReqs, CatalogExchange(url, FALSE, NoUrl))
    /\ received' = received
    /\ url' = url
    /\ products' = <<>>
    /\ products_by_date' = <<>>
    /\ pc' = "auth"

\* requests.RequestException in the loop: print and break; the product list is built
\* from products_by_date and fetch_products returns
PageFails ==
    /\ catReqs' = Append(catReqs, CatalogExchange(url, FALSE, NoUrl))
    /\ received' = received
    /\ url' = url
    /\ products' = ProductList(products_by_date)
    /\ products_by_date' = <<>>
    /\ pc' = "auth"

\* the page is read: its entries go through the for loop and url becomes the
\* next-page link, or None when the server gives none; then the loop ends, the product
\* list is built and fetch_products returns
PageRead ==
    \E shp \in PagesUpTo(MaxEntries - Len(received)) :
    \E next \in Links \cup {NoUrl} :
        LET page == PageEntries(shp, Len(received))
            dict == AddPage(products_by_date, page)
        IN
        /\ (Len(catReqs) + 1 >= MaxPages) => next = NoUrl
        /\ catReqs' = Append(catReqs, CatalogExchange(url, TRUE, next))
        /\ received' = received \o page
        /\ url' = next
        /\ IF next = NoUrl
           THEN /\ products' = ProductList(dict)
                /\ products_by_date' = <<>>
                /\ pc' = "auth"
           ELSE /\ products' = products
                /\ products_by_date' = dict
                /\ pc' = "fetch"

\* One iteration of `while url:`, up to the return of fetch_products when it is the
\* last.
FetchPage ==
    /\ pc = "fetch"
    /\ \/ PageFails
       \/ PageRead
    /\ UNCHANGED <<ACCESS_TOKEN, REFRESH_TOKEN, idx, attempt, headers, files,
                   partial, error, log>>

----------------------------------------------------------------------------
(* The log: load_credentials calls, token POSTs, download_product calls and      *)
(* returns, download GETs and their outcomes, handle_token_expiry calls and      *)
(* returns, raised exceptions.                                                   *)

\* i: position of the product in the work list (0 outside download_product);
\* tok: the token sent; ok: the outcome (for "call": whether the target file exists)
Ev(op, i, tok, ok) == [op |-> op, i |-> i, tok |-> tok, ok |-> ok]

TokenPostOps == {"password", "refresh"}

\* number of token POSTs logged in l
TokenPosts(l) == Cardinality({p \in 1..Len(l) : l[p].op \in TokenPostOps})

\* the token endpoint numbers its responses
NextResp == TokenPosts(log) + 1

----------------------------------------------------------------------------
(* Module level: initial authentication *)

\* The locals of the finished fetch_products call are gone.
\* `if not ACCESS_TOKEN: username, password = load_credentials(conf_dir);
\*  ACCESS_TOKEN, REFRESH_TOKEN = get_access_token(username, password)` and the entry
\* of the for loop.  get_access_token returns (None, None) on a RequestException.
InitialAuth ==
    /\ pc = "auth"
    /\ received' = <<>>
    /\ catReqs' = <<>>
    /\ url' = NoUrl
    /\ IF ACCESS_TOKEN # None
       THEN /\ pc' = "loop"
            /\ idx' = 1
            /\ UNCHANGED <<ACCESS_TOKEN, REFRESH_TOKEN, error, log>>
       ELSE \/ \* load_credentials raises: the file is missing or lacks a field
               /\ log' = Append(log, Ev("load", 0, None, FALSE))
               /\ error' = [kind |-> "config", product |-> 0]
               /\ pc' = "aborted"
               /\ UNCHANGED <<ACCESS_TOKEN, REFRESH_TOKEN, idx>>
            \/ \E ok \in BOOLEAN :
               /\ log' = log \o <<Ev("load", 0, None, TRUE), Ev("password", 0, None, ok)>>
               /\ ACCESS_TOKEN' = IF ok THEN AccessOf(NextResp) ELSE None
               /\ REFRESH_TOKEN' = IF ok THEN RefreshOf(NextResp) ELSE None
               /\ idx' = 1
               /\ pc' = "loop"
               /\ error' = error
    /\ UNCHANGED <<products_by_date, products, attempt, headers, files, partial>>

----------------------------------------------------------------------------
(* Module level: the for loop, and download_product *)

\* file_path of the product the loop is at
TargetFile == FileName(products[idx].Name)

\* `for i, product in enumerate(products)` is exhausted: print("Download completed")
Finish ==
    /\ pc = "loop"
    /\ idx > Len(products)
    /\ pc' = "done"
    /\ UNCHANGED <<url, products_by_date, received, catReqs, products, ACCESS_TOKEN,
                   REFRESH_TOKEN, idx, attempt, headers, files, partial, error, log>>

\* DownloadSkip with the `return` forgotten: the while loop is entered although the
\* file exists
DownloadSkip_NoReturn ==
    /\ pc = "loop"
    /\ idx <= Len(products)
    /\ log' = Append(log, Ev("call", idx, None, TRUE))
    /\ attempt' = 0
    /\ pc' = "get"
    /\ UNCHANGED <<url, products_by_date, received, catReqs, products, ACCESS_TOKEN,
                   REFRESH_TOKEN, idx, headers, files, partial, error>>

\* download_product(product) with os.path.exists(file_path) true: print and return;
\* the loop moves on.  A file exists when an earlier run left it (an input of this
\* run, read here) or when this run created it.
DownloadSkip ==
    /\ pc = "loop"
    /\ idx <= Len(products)
    /\ log' = log \o <<Ev("call", idx, None, TRUE), Ev("return", idx, None, TRUE)>>
    /\ idx' = idx + 1
    /\ pc' = "loop"
    /\ UNCHANGED <<url, products_by_date, received, catReqs, products, ACCESS_TOKEN,
                   REFRESH_TOKEN, attempt, headers, files, partial, error>>

\* download_product(product) with os.path.exists(file_path) false: attempt = 0 and
\* the while loop is entered
DownloadBegin ==
    /\ pc = "loop"
    /\ idx <= Len(products)
    /\ TargetFile \notin files
    /\ log' = Append(log, Ev("call", idx, None, FALSE))
    /\ attempt' = 0
    /\ pc' = "get"
    /\ UNCHANGED <<url, products_by_date, received, catReqs, products, ACCESS_TOKEN,
                   REFRESH_TOKEN, idx, headers, files, partial, error>>

\* `while attempt < 3:` headers = Bearer ACCESS_TOKEN; session.get(url, stream=True)
\* is sent
DownloadGet ==
    /\ pc = "get"
    /\ attempt < MaxAttempts
    /\ headers' = ACCESS_TOKEN
    /\ log' = Append(log, Ev("GET", idx, ACCESS_TOKEN, TRUE))
    /\ pc' = "wait"
    /\ UNCHANGED <<url, products_by_date, received, catReqs, products, ACCESS_TOKEN,
                   REFRESH_TOKEN, idx, attempt, files, partial, error>>

\* the GET and raise_for_status succeed: the body is about to be streamed
GetSucceeds ==
    /\ pc = "wait"
    /\ log' = Append(log, Ev("GETok", idx, headers, TRUE))
    /\ pc' = "stream"
    /\ UNCHANGED <<url, products_by_date, received, catReqs, products, ACCESS_TOKEN,
                   REFRESH_TOKEN, idx, attempt, headers, files, partial, error>>

\* requests.RequestException: print("Download failed") and handle_token_expiry() is
\* called
GetFails ==
    /\ pc = "wait"
    /\ log' = log \o <<Ev("GETfail", idx, headers, FALSE), Ev("expiry", idx, None, TRUE)>>
    /\ pc' = "refresh"
    /\ UNCHANGED <<url, products_by_date, received, catReqs, products, ACCESS_TOKEN,
                   REFRESH_TOKEN, idx, attempt, headers, files, partial, error>>

\* AfterExpiry with `attempt += 1` forgotten
AfterExpiry_NoIncrement(l) ==
    /\ attempt' = attempt
    /\ log' = l
    /\ error' = error
    /\ pc' = "get"

\* the code of download_product after handle_token_expiry() returned, given the log
\* up to that return: attempt += 1; if attempt >= 3: raise Exception("Too many failed
\* attempts for <product_name>"); continue
AfterExpiry(l) ==
    /\ attempt' = attempt + 1
    /\ IF attempt + 1 >= MaxAttempts
       THEN /\ log' = Append(l, Ev("raise", idx, None, FALSE))
            /\ error' = [kind |-> "exhausted", product |-> idx]
            /\ pc' = "aborted"
       ELSE /\ log' = l
            /\ error' = error
            /\ pc' = "get"

\* Refresh with the test `if not ACCESS_TOKEN` inverted: the credentials are
\* submitted again after a refresh that yielded a token
Refresh_ThenReauth ==
    /\ pc = "refresh"
    /\ REFRESH_TOKEN # None
    /\ ACCESS_TOKEN' = AccessOf(NextResp)
    /\ log' = Append(log, Ev("refresh", idx, REFRESH_TOKEN, TRUE))
    /\ pc' = "reauth"
    /\ UNCHANGED <<url, products_by_date, received, catReqs, products, REFRESH_TOKEN,
                   idx, attempt, headers, files, partial, error>>

\* handle_token_expiry: ACCESS_TOKEN = regenerate_access_token(REFRESH_TOKEN).  The
\* POST fails (None is returned; always so when no refresh token is held) or yields a
\* new access token, with which handle_token_expiry returns.
Refresh ==
    /\ pc = "refresh"
    /\ \/ /\ REFRESH_TOKEN # None
          /\ ACCESS_TOKEN' = AccessOf(NextResp)
          /\ AfterExpiry(log \o <<Ev("refresh", idx, REFRESH_TOKEN, TRUE),
                                  Ev("handled", idx, None, TRUE)>>)
       \/ /\ ACCESS_TOKEN' = None
          /\ log' = Append(log, Ev("refresh", idx, REFRESH_TOKEN, FALSE))
          /\ pc' = "reauth"
          /\ UNCHANGED <<attempt, error>>
    /\ UNCHANGED <<url, products_by_date, received, catReqs, products, REFRESH_TOKEN,
                   idx, headers, files, partial>>

\* Reauth keeping only the access token of the password grant's response
Reauth_AccessOnly ==
    /\ pc = "reauth"
    /\ ACCESS_TOKEN' = AccessOf(NextResp)
    /\ AfterExpiry(log \o <<Ev("load", idx, None, TRUE),
                            Ev("password", idx, None, TRUE),
                            Ev("handled", idx, None, TRUE)>>)
    /\ UNCHANGED <<url, products_by_date, received, catReqs, products, REFRESH_TOKEN,
                   idx, headers, files, partial>>

\* Reauth with the final `raise` forgotten: handle_token_expiry returns although the
\* password grant failed
Reauth_NoRaise ==
    /\ pc = "reauth"
    /\ ACCESS_TOKEN' = None
    /\ REFRESH_TOKEN' = None
    /\ AfterExpiry(log \o <<Ev("load", idx, None, TRUE),
                            Ev("password", idx, None, FALSE),
                            Ev("handled", idx, None, TRUE)>>)
    /\ UNCHANGED <<url, products_by_date, received, catReqs, products, idx, headers,
                   files, partial>>

\* handle_token_expiry, `if not ACCESS_TOKEN:` load_credentials, get_access_token and
\* `if not ACCESS_TOKEN: raise Exception("Re-authentication failed ...")`
Reauth ==
    /\ pc = "reauth"
    /\ \/ \* load_credentials raises
          /\ log' = Append(log, Ev("load", idx, None, FALSE))
          /\ error' = [kind |-> "config", product |-> idx]
          /\ pc' = "aborted"
          /\ UNCHANGED <<ACCESS_TOKEN, REFRESH_TOKEN, attempt>>
       \/ \* the password grant yields a token pair
          /\ ACCESS_TOKEN' = AccessOf(NextResp)
          /\ REFRESH_TOKEN' = RefreshOf(NextResp)
          /\ AfterExpiry(log \o <<Ev("load", idx, None, TRUE),
                                  Ev("password", idx, None, TRUE),
                                  Ev("handled", idx, None, TRUE)>>)
       \/ \* the password grant fails: (None, None), and the exception is raised
          /\ ACCESS_TOKEN' = None
          /\ REFRESH_TOKEN' = None
          /\ log' = log \o <<Ev("load", idx, None, TRUE),
                             Ev("password", idx, None, FALSE),
                             Ev("raise", idx, None, FALSE)>>
          /\ error' = [kind |-> "reauth", product |-> idx]
          /\ pc' = "aborted"
          /\ attempt' = attempt
    /\ UNCHANGED <<url, products_by_date, received, catReqs, products, idx, headers,
                   files, partial>>

\* Stream with the for loop not advancing after a download: download_product is
\* invoked on the same work item again
Stream_SameItem ==
    /\ pc = "stream"
    /\ files' = files \cup {TargetFile}
    /\ log' = log \o <<Ev("saved", idx, None, TRUE), Ev("return", idx, None, TRUE)>>
    /\ pc' = "loop"
    /\ UNCHANGED <<url, products_by_date, received, catReqs, products, ACCESS_TOKEN,
                   REFRESH_TOKEN, idx, attempt, headers, partial, error>>

\* open(file_path, "wb") and the chunk loop.  The body is written to the end (break,
\* return, next product), or iter_content raises outside the try block: the
\* exception leaves download_product and the for loop, and the file stays as it is.
Stream ==
    /\ pc = "stream"
    /\ files' = files \cup {TargetFile}
    /\ \/ /\ log' = log \o <<Ev("saved", idx, None, TRUE), Ev("return", idx, None, TRUE)>>
          /\ partial' = partial
          /\ idx' = idx + 1
          /\ pc' = "loop"
          /\ error' = error
       \/ /\ log' = Append(log, Ev("raise", idx, None, FALSE))
          /\ partial' = partial \cup {TargetFile}
          /\ idx' = idx
          /\ error' = [kind |-> "stream", product |-> idx]
          /\ pc' = "aborted"
    /\ UNCHANGED <<url, products_by_date, received, catReqs, products, ACCESS_TOKEN,
                   REFRESH_TOKEN, attempt, headers>>

----------------------------------------------------------------------------
(* The run *)

\* the state after the module's globals are set and fetch_products(params) is entered
Init ==
    /\ pc = "fetch"
    /\ url = BaseUrl
    /\ products_by_date = <<>>
    /\ received = <<>>
    /\ catReqs = <<>>
    /\ products = <<>>
    /\ ACCESS_TOKEN = None
    /\ REFRESH_TOKEN = None
    /\ idx = 0
    /\ attempt = 0
    /\ headers = None
    /\ files = {}
    /\ partial = {}
    /\ error = NoError
    /\ log = <<>>

Next ==
    \/ FetchPage
    \/ InitialAuth
    \/ Finish
    \/ DownloadSkip
    \/ DownloadBegin
    \/ DownloadGet
    \/ GetSucceeds
    \/ GetFails
    \/ Refresh
    \/ Reauth
    \/ Stream

Spec == Init /\ [][Next]_vars

----------------------------------------------------------------------------
(* Properties *)

Halted == pc \in {"done", "aborted"}

\* download_product was invoked on the i-th work item
Called(i) == \E p \in 1..Len(log) : log[p].op = "call" /\ log[p].i = i

\* C1: when the run has ended, every work item that follows a product whose three
\* download attempts failed (download_product raised "Too many failed attempts")
\* has had download_product invoked on it.
C1_RunContinuesAfterExhaustedProduct ==
    (Halted /\ error.kind = "exhausted")
        => \A j \in (error.product + 1)..Len(products) : Called(j)

\* the entries read whose name matches the baseline pattern
Matched == {p \in 1..Len(received) : ParseBaseline(received[p].Name) # NoMatch}

\* the positions of the returned list that hold a product of date d
OfDate(d) == {k \in 1..Len(products) : DateOf(products[k]) = d}

\* the product of the returned list at position k has the greatest parsed baseline
\* of the entries read for its date
HasMaxBaseline(k) ==
    \A p \in Matched :
        DateOf(received[p]) = DateOf(products[k])
            => ParseBaseline(received[p].Name) <= ParseBaseline(products[k].Name)

Returned == pc = "auth"

\* C2 as claimed: when fetch_products returns, its list holds exactly one entry for
\* each acquisition date that occurs in the entries read, an entry that was read and
\* whose baseline number is the greatest of its date.
C2_OnePerDateOfInput ==
    Returned =>
        /\ \A k \in 1..Len(products) :
              (\E p \in 1..Len(received) : received[p] = products[k]) /\ HasMaxBaseline(k)
        /\ \A d \in {DateOf(received[p]) : p \in 1..Len(received)} :
              Cardinality(OfDate(d)) = 1

\* C2 amended: when fetch_products returns, its list holds exactly one entry for each
\* acquisition date that occurs among the entries read whose name matches the
\* baseline pattern, and none for any other date; each entry of the list was read,
\* matches the pattern and has the greatest baseline number of its date.
C2_OnePerDateOfMatched ==
    Returned =>
        /\ \A k \in 1..Len(products) :
              (\E p \in Matched : received[p] = products[k]) /\ HasMaxBaseline(k)
        /\ \A d \in Days :
              Cardinality(OfDate(d)) =
                  IF \E p \in Matched : DateOf(received[p]) = d THEN 1 ELSE 0

\* C2 witness: two entries of one date with different baselines were read, the
\* greater one first, and the list holds that one
C2_Witness ==
    /\ Returned
    /\ Len(received) = 2
    /\ DateOf(received[1]) = DateOf(received[2])
    /\ ParseBaseline(received[2].Name) # NoMatch
    /\ ParseBaseline(received[1].Name) > ParseBaseline(received[2].Name)
    /\ products = <<received[1]>>

\* C3: the list fetch_products returns is sorted by acquisition date ascending.
C3_SortedByDate ==
    Returned =>
        \A k, l \in 1..Len(products) : k < l => DateOf(products[k]) <= DateOf(products[l])

NetOps == {"GET", "password", "refresh"}

\* the step invokes download_product on a product whose target file exists
CallsOnExistingFile ==
    /\ Len(log') > Len(log)
    /\ log'[Len(log) + 1].op = "call"
    /\ log'[Len(log) + 1].ok

\* C4: a step that invokes download_product on a product whose target file exists
\* issues no download GET and no token POST, raises nothing, returns from
\* download_product, and leaves the token pair and the files as they were.
C4_ExistingFileIsSkipped ==
    [][CallsOnExistingFile =>
          /\ \A p \in (Len(log) + 1)..Len(log') : log'[p].op \notin NetOps
          /\ log'[Len(log')].op = "return"
          /\ error' = NoError
          /\ pc' = "loop"
          /\ ACCESS_TOKEN' = ACCESS_TOKEN
          /\ REFRESH_TOKEN' = REFRESH_TOKEN
          /\ files' = files
          /\ partial' = partial]_vars

\* C4 witness: with a token pair held, download_product has just returned from a
\* call on a product whose file exists
C4_Witness ==
    /\ Len(log) >= 2
    /\ log[Len(log)].op = "return"
    /\ log[Len(log) - 1].op = "call"
    /\ log[Len(log) - 1].ok
    /\ ACCESS_TOKEN # None

\* C5: while a download GET is in flight, the bearer token it carries is not None.
C5_BearerNeverNone == pc = "wait" => headers # None

\* the number of the token response that answers the token POST logged at p
RespAt(p) == Cardinality({r \in 1..p : log[r].op \in TokenPostOps})

\* no token POST is logged after position p
LastTokenPost(p) == \A r \in (p + 1)..Len(log) : log[r].op \notin TokenPostOps

\* inside handle_token_expiry the refresh failed and the password grant logged at q
\* succeeded, after a failed download GET
ReauthSucceeded(q) ==
    /\ q >= 5
    /\ log[q].op = "password" /\ log[q].ok
    /\ log[q - 1].op = "load"
    /\ log[q - 2].op = "refresh" /\ ~log[q - 2].ok
    /\ log[q - 3].op = "expiry"
    /\ log[q - 4].op = "GETfail"

\* the failed download GETs of work item i logged up to position q
FailedGets(i, q) == {p \in 1..q : log[p].op = "GETfail" /\ log[p].i = i}

\* the pair of the response to the password grant logged at q is held, as long as no
\* later token POST replaced it
PairAdopted(q) ==
    LastTokenPost(q) =>
        ACCESS_TOKEN = AccessOf(RespAt(q)) /\ REFRESH_TOKEN = RefreshOf(RespAt(q))

\* the download GET is issued again for the same product with the access token of
\* the response to the token POST logged at q: it is the only step the script can
\* take, or it is already logged
RetriedWith(q) ==
    /\ q + 1 <= Len(log) /\ log[q + 1].op = "handled"
    /\ IF Len(log) = q + 1
       THEN pc = "get" /\ attempt < MaxAttempts /\ ACCESS_TOKEN = AccessOf(RespAt(q))
       ELSE log[q + 2] = Ev("GET", log[q].i, AccessOf(RespAt(q)), TRUE)

\* download_product raised "Too many failed attempts" right after the token POST
\* logged at q, and the run ended there
GaveUpAfter(q) ==
    /\ Len(log) = q + 2
    /\ log[q + 1].op = "handled"
    /\ log[q + 2].op = "raise"
    /\ pc = "aborted"
    /\ error = [kind |-> "exhausted", product |-> log[q].i]

\* C6 as claimed: after any failed download GET on which the refresh failed and the
\* re-authentication succeeded, the new token pair is the one held and the GET is
\* retried with the new access token.
C6_ReauthAlwaysRetried ==
    \A q \in 1..Len(log) : ReauthSucceeded(q) => PairAdopted(q) /\ RetriedWith(q)

\* C6 amended: after a failed download GET on which the refresh failed and the
\* re-authentication succeeded, the new token pair is the one held; after the first
\* or the second failed GET of the product the GET is retried with the new access
\* token, after the third the pair is adopted too but download_product raises without
\* another GET.
C6_ReauthRetriedUnlessThird ==
    \A q \in 1..Len(log) :
        ReauthSucceeded(q) =>
            /\ PairAdopted(q)
            /\ IF Cardinality(FailedGets(log[q].i, q)) < MaxAttempts
               THEN RetriedWith(q)
               ELSE GaveUpAfter(q)

\* C6 witness: one product saw a re-authentication followed by the retry, and a later
\* re-authentication after its third failed GET
C6_Witness ==
    \E q, r \in 1..Len(log) :
        /\ q < r
        /\ ReauthSucceeded(q) /\ ReauthSucceeded(r)
        /\ log[q].i = log[r].i
        /\ r + 2 <= Len(log)
        /\ log[q + 2].op = "GET"
        /\ log[r + 2].op = "raise"

\* C7: in handle_token_expiry the refresh grant is the first request; a refresh that
\* yields a token is followed by the return, with that token held and without
\* load_credentials or a password grant; load_credentials and the password grant
\* come only after a refresh that yielded nothing, once per call.
C7_RefreshFirst ==
    \A p \in 1..Len(log) :
        LET op == log[p].op IN
        CASE op = "expiry" -> (p < Len(log) => log[p + 1].op = "refresh")
          [] op = "refresh" ->
                /\ log[p - 1].op = "expiry"
                /\ log[p].ok =>
                      /\ p + 1 <= Len(log) /\ log[p + 1].op = "handled"
                      /\ LastTokenPost(p) => ACCESS_TOKEN = AccessOf(RespAt(p))
          [] op = "load" /\ log[p].i > 0 ->
                /\ log[p - 1].op = "refresh" /\ ~log[p - 1].ok
                /\ p < Len(log) => log[p + 1].op = "password"
          [] op = "password" /\ log[p].i > 0 ->
                /\ log[p - 1].op = "load"
                /\ p + 1 <= Len(log) /\ log[p + 1].op \in {"handled", "raise"}
          [] OTHER -> TRUE

\* C7 witness: one handle_token_expiry call returned after the refresh alone, another
\* went on to the password grant
C7_Witness ==
    \E p, q \in 1..Len(log) :
        /\ log[p].op = "refresh" /\ log[p].ok
        /\ log[q].op = "password" /\ log[q].i > 0

\* C8: when inside handle_token_expiry the refresh and then the password grant have
\* failed, the exception is raised and the run has ended: that password grant and
\* the raise are the last entries of the log, in every state reached.
C8_ReauthFailureIsFatal ==
    \A q \in 1..Len(log) :
        (log[q].op = "password" /\ ~log[q].ok /\ log[q].i > 0) =>
            /\ log[q - 2].op = "refresh" /\ ~log[q - 2].ok
            /\ Len(log) = q + 1
            /\ log[q + 1].op = "raise"
            /\ pc = "aborted"
            /\ error = [kind |-> "reauth", product |-> log[q].i]

\* C8 witness: the second product's download met a failed refresh and a failed
\* password grant
C8_Witness ==
    \E q \in 1..Len(log) : log[q].op = "password" /\ ~log[q].ok /\ log[q].i = 2

\* the download GETs logged for work item i
Gets(i) == {p \in 1..Len(log) : log[p].op = "GET" /\ log[p].i = i}

\* the handle_token_expiry calls that returned to the download of work item i
Handled(i) == {p \in 1..Len(log) : log[p].op = "handled" /\ log[p].i = i}

\* the GET logged at p is the first of its download_product call
FirstGet(p) == log[p - 1] = Ev("call", log[p].i, None, FALSE)

\* the GET logged at p follows a failed GET of the same product and a
\* handle_token_expiry call that was made for that failure and returned
RetryGet(p) ==
    /\ log[p - 1].op = "handled"
    /\ \E g \in 1..(p - 1) :
          /\ log[g].op = "GET" /\ log[g].i = log[p].i
          /\ log[g + 1].op = "GETfail"
          /\ log[g + 2].op = "expiry"
          /\ \A r \in (g + 3)..(p - 2) : log[r].op \in {"refresh", "load", "password"}
    /\ log[p].tok = AccessOf(RespAt(p))

\* C9: a download_product call issues at most 3 GETs; every GET but the first
\* follows a failed GET and a handle_token_expiry call that returned normally, and
\* carries the access token held then; the attempt counter counts the failed GETs
\* whose handle_token_expiry call returned.
C9_BoundedRetries ==
    /\ \A i \in 1..Len(products) : Cardinality(Gets(i)) <= MaxAttempts
    /\ \A p \in 1..Len(log) : log[p].op = "GET" => FirstGet(p) \/ RetryGet(p)
    /\ pc \in {"get", "wait", "stream", "refresh", "reauth"} =>
          attempt = Cardinality(Handled(idx))
    /\ pc = "wait" => headers = ACCESS_TOKEN

\* C9 witness: the third GET of a product is in flight
C9_Witness ==
    /\ pc = "wait"
    /\ Cardinality(Gets(idx)) = MaxAttempts
    /\ attempt = MaxAttempts - 1

\* C10: outside handle_token_expiry, the access token and the refresh token held
\* come from the same response of the token endpoint.
C10_PairFromOneResponse ==
    pc # "reauth" => ACCESS_TOKEN.resp = REFRESH_TOKEN.resp

\* the initial password grant (made outside download_product) failed
InitialAuthFailed ==
    \E p \in 1..Len(log) : log[p].op = "password" /\ log[p].i = 0 /\ ~log[p].ok

\* C11: after a failed initial authentication no download GET is issued.
C11_InitialAuthFailureIsFatal ==
    InitialAuthFailed => \A p \in 1..Len(log) : log[p].op # "GET"

\* C12: the first catalogue request carries the filter and ordering parameters and
\* no later one does; every later request targets the next-page link the preceding
\* page carried.
C12_ParamsOnFirstRequestOnly ==
    \A k \in 1..Len(catReqs) :
        /\ catReqs[k].req.params <=> (k = 1)
        /\ k > 1 => catReqs[k].req.url = catReqs[k - 1].next

\* the k-th catalogue request was answered by a page that carries a next-page link
PageWithLink(k) == catReqs[k].ok /\ catReqs[k].next # NoUrl

\* C13: a catalogue request is followed by another exactly when its page was read and
\* carried a next-page link: every request but the last had such a page; after the
\* last request the script is about to request the link of its page, if it was read
\* and carried one, and has left fetch_products otherwise.  At least one request is
\* made.
C13_NextRequestIffLink ==
    /\ \A k \in 1..(Len(catReqs) - 1) : PageWithLink(k)
    /\ pc = "fetch" =>
          /\ url # NoUrl
          /\ catReqs # <<>> => PageWithLink(Len(catReqs)) /\ url = catReqs[Len(catReqs)].next
    /\ Returned => catReqs # <<>> /\ ~PageWithLink(Len(catReqs))

\* C13 witness: the first page was read, had entries and carried no next-page link:
\* fetch_products returned after one request
C13_Witness ==
    /\ Returned
    /\ Len(catReqs) = 1
    /\ catReqs[1].ok
    /\ received # <<>>

\* the returned list holds, for the date of the entry read at position p, an entry
\* whose baseline number is at least that of the entry
Covered(p) ==
    \E k \in 1..Len(products) :
        /\ DateOf(products[k]) = DateOf(received[p])
        /\ ParseBaseline(products[k].Name) >= ParseBaseline(received[p].Name)

\* C14: a catalogue request that fails is the last one; fetch_products then returns
\* without an exception, and the list it returns covers every entry with a matching
\* name read from the pages before.
C14_FailureTruncatesPagination ==
    \A k \in 1..Len(catReqs) :
        ~catReqs[k].ok =>
            /\ k = Len(catReqs)
            /\ Returned
            /\ error = NoError
            /\ \A p \in Matched : Covered(p)

\* C14 witness: the second request failed after a first page with a matching entry,
\* which is in the returned list
C14_Witness ==
    /\ Returned
    /\ Len(catReqs) = 2
    /\ ~catReqs[2].ok
    /\ Len(received) >= 1
    /\ products = <<received[1]>>

\* the entries read that tie for the greatest baseline number of the date of the
\* entry at position k of the returned list
TiedFor(k) ==
    {p \in Matched :
        /\ DateOf(received[p]) = DateOf(products[k])
        /\ ParseBaseline(received[p].Name) = ParseBaseline(products[k].Name)}

\* C15 as claimed: of the entries of one date that tie for the greatest baseline
\* number, the returned list holds the one read last.
C15_TieKeepsLast ==
    Returned =>
        \A k \in 1..Len(products) :
            HasMaxBaseline(k) /\ \A p \in TiedFor(k) : products[k].Id >= received[p].Id

\* C15 amended: of the entries of one date that tie for the greatest baseline number,
\* the returned list holds the one read first.
C15_TieKeepsFirst ==
    Returned =>
        \A k \in 1..Len(products) :
            HasMaxBaseline(k) /\ \A p \in TiedFor(k) : products[k].Id <= received[p].Id

\* C15 witness: two entries of one date with the same baseline number were read, and
\* the list holds the first
C15_Witness ==
    /\ Returned
    /\ Len(received) = 2
    /\ DateOf(received[1]) = DateOf(received[2])
    /\ ParseBaseline(received[1].Name) # NoMatch
    /\ ParseBaseline(received[1].Name) = ParseBaseline(received[2].Name)
    /\ products = <<received[1]>>

\* the entries read whose name does not match the baseline pattern
Unmatched == {p \in 1..Len(received) : ParseBaseline(received[p].Name) = NoMatch}

\* C16 as claimed: every entry read whose name does not match the baseline pattern is
\* in the returned list.
C16_UnmatchedRetained ==
    Returned =>
        \A p \in Unmatched : \E k \in 1..Len(products) : products[k] = received[p]

\* C16 amended: no entry read whose name does not match the baseline pattern is in
\* the returned list, and no entry of the list has such a name; the list has as many
\* entries as there are dates among the entries with a matching name.
C16_UnmatchedDropped ==
    Returned =>
        /\ \A p \in Unmatched : \A k \in 1..Len(products) : products[k] # received[p]
        /\ \A k \in 1..Len(products) : ParseBaseline(products[k].Name) # NoMatch
        /\ Len(products) = Cardinality({DateOf(received[p]) : p \in Matched})

\* C16 witness: an entry with a malformed name and an entry of another date with a
\* matching name were read; only the second is in the list
C16_Witness ==
    /\ Returned
    /\ Len(received) = 2
    /\ 1 \in Unmatched
    /\ 2 \in Matched
    /\ DateOf(received[1]) # DateOf(received[2])
    /\ products = <<received[2]>>

\* the work item of the log entry before position p, 0 at the start of the log
ItemBefore(p) == IF p = 1 THEN 0 ELSE log[p - 1].i

\* C17: nothing of the download phase happens before fetch_products has returned the
\* work list, and no catalogue request is made after; download_product is invoked on
\* the work items in the order of the list, each at most once (the first call is on
\* item 1, each later call on the item after the one of the call before), the next
\* one only after the call on the one before has returned, and every download GET and
\* token request of a call lies between that call and the next.
C17_StrictlySequential ==
    /\ pc \in {"fetch", "auth"} => log = <<>>
    /\ log # <<>> => catReqs = <<>>
    /\ \A p \in 1..Len(log) :
          IF log[p].op = "call"
          THEN /\ log[p].i = ItemBefore(p) + 1
               /\ log[p].i <= Len(products)
               /\ log[p].i > 1 => log[p - 1] = Ev("return", log[p].i - 1, None, TRUE)
          ELSE log[p].i = ItemBefore(p)

\* C17 witness: the second work item is being downloaded after the first was
C17_Witness ==
    /\ pc = "wait"
    /\ idx = 2
    /\ \E p \in 1..Len(log) : log[p].op = "saved" /\ log[p].i = 1

\* C18: no file of the download directory holds a body that was not written to the
\* end.
C18_NoPartialFile == \A f \in files : f \notin partial

\* handle_token_expiry has returned normally, and no token request was made since
HandlerReturned ==
    \E p \in 1..Len(log) : log[p].op = "handled" /\ LastTokenPost(p)

\* handle_token_expiry raised "Re-authentication failed"
ReauthRaised == error.kind = "reauth"

\* load_credentials raised inside handle_token_expiry
ReloadRaised == error.kind = "config" /\ error.product > 0

\* C19 as claimed: after handle_token_expiry returned normally the access token held
\* is not None; after it raised, the access token and the refresh token held are
\* both None.
C19_RaiseClearsBothTokens ==
    /\ HandlerReturned => ACCESS_TOKEN # None
    /\ (ReauthRaised \/ ReloadRaised) => ACCESS_TOKEN = None /\ REFRESH_TOKEN = None

\* C19 amended: after handle_token_expiry returned normally the access token held is
\* not None; after it raised "Re-authentication failed" the access token and the
\* refresh token held are both None; after load_credentials raised inside it the
\* access token is None and the refresh token is the one that was sent in the failed
\* refresh.
C19_RaiseClearsTokensUnlessReloadFails ==
    /\ HandlerReturned => ACCESS_TOKEN # None
    /\ ReauthRaised => ACCESS_TOKEN = None /\ REFRESH_TOKEN = None
    /\ ReloadRaised =>
          /\ ACCESS_TOKEN = None
          /\ Len(log) >= 2
          /\ log[Len(log) - 1].op = "refresh"
          /\ REFRESH_TOKEN = log[Len(log) - 1].tok

\* C19 witness: one handle_token_expiry call returned, a later one raised
\* "Re-authentication failed" and the refresh token held until then is lost
C19_Witness ==
    /\ ReauthRaised
    /\ \E p \in 1..Len(log) : log[p].op = "handled"
    /\ Len(log) >= 4
    /\ log[Len(log) - 3].op = "refresh"
    /\ log[Len(log) - 3].tok # None

====
